---- MODULE Spec2Model ----
(***************************************************************************)
(* Model of the resilient subscription engine of ethclient                 *)
(* (ChainSubscrier.SubscribeFilterlogs / SubscribeNewHead): the gap        *)
(* detector goroutine, the resubscription goroutine, the live session, the *)
(* remote node and the consumer of the result channel.                     *)
(***************************************************************************)
EXTENDS Integers, Sequences, FiniteSets, TLC

\* ------------------------------------------------------------------ bounds
MaxBlock == 2      \* block numbers of logs are 1..MaxBlock
MaxRes == 2        \* longest result of one FilterLogs call
MaxFaults == 2     \* failed opens + session terminations the network injects
MaxHead == 4       \* block numbers of headers are 1..MaxHead
MaxMsgs == 12      \* messages a caller sends to BatchSendMsg
MaxN == 2          \* confirmations a caller asks ConfirmTx for
NGo == 2           \* goroutines that call SendMsg on one Client
NAcct == 2         \* sender accounts
MaxPending == 1    \* the chain's pending nonce of an account is 0..MaxPending
MaxCalls == 4      \* calls of SendMsg made in all

\* ------------------------------------------------------------------ values
\* The (TxIndex, Index) places of the logs of one block: two logs of the first
\* transaction, one of the second.
TxIdx == {<<0, 0>>, <<0, 1>>, <<1, 0>>}

\* types.Log reduced to the three fields the subscriber reads.
Log == {[bn |-> b, tx |-> p[1], idx |-> p[2]] : b \in 1..MaxBlock, p \in TxIdx}

\* The nil *types.Log (block 0 is outside Log).
NilLog == [bn |-> 0, tx |-> 0, idx |-> 0]

\* A log the remote has chosen and the subscriber has not read yet. Where the
\* remote may send anything, the value of an item is drawn when the code first
\* reads it: nothing depends on it before.
Unread == [bn |-> 0, tx |-> 1, idx |-> 0]

Resolve(x) == IF x = Unread THEN Log ELSE {x}

\* The lexicographic order on (BlockNumber, TxIndex, Index), stated on its own.
KeyLess(a, b) ==
    \/ a.bn < b.bn
    \/ a.bn = b.bn /\ a.tx < b.tx
    \/ a.bn = b.bn /\ a.tx = b.tx /\ a.idx < b.idx

KeyLeq(a, b) == a = b \/ KeyLess(a, b)

Range(s) == {s[i] : i \in 1..Len(s)}

StrictlyIncreasing(s) == \A i \in 1..(Len(s) - 1) : KeyLess(s[i], s[i + 1])

\* The logs of a set in key order.
RECURSIVE SortLogs(_)
SortLogs(S) ==
    IF S = {} THEN <<>>
    ELSE LET m == CHOOSE x \in S : \A y \in S : KeyLeq(x, y)
         IN  <<m>> \o SortLogs(S \ {m})

VARIABLES
    \* ---- the log subscription
    ctxDone,      \* the subscription's context is cancelled
    fpc,          \* SubscribeFilterlogs: "new", "running" (returned nil), "failed" and
                  \* "cancelled" (returned the error of the eager query)
    remote,       \* "any": the remote may send anything; "chain": it answers from chain
    chain,        \* the logs on the remote chain ("chain" only)
    toBlock,      \* q.ToBlock, 0 for nil (latest)
    checkChan,    \* the raw channel: items buffered or held by a blocked sender
    chanCap,      \* cap(checkChan) = len(logs) of the eager query
    eager,        \* logs, the result of the eager query
    dpc,          \* gap detector goroutine: where it is
    lastLog,      \* its lastLog (NilLog for nil)
    commingLog,   \* the raw log it took last
    start,        \* its backfill cursor
    end,          \* the gap's last block
    vlog,         \* the part of the FilterLogs result not yet ranged over
    l,            \* the loop variable of the range over vlog (NilLog outside the loop)
    resultChan,   \* the log the detector is sending to the consumer (NilLog: none)
    delivered,    \* what the consumer received, in order
    queried,      \* <<FromBlock, ToBlock>> of the last gap-recovery query (<<>>: none yet)
    spc,          \* resubscription goroutine: where it is
    sub,          \* the live session: "none", "live", "errored" (Err() readable), "closed"
    opens,        \* calls of fn()
    terms,        \* errors received from sub.Err()
    fails,        \* calls of fn() that failed with a non-cancellation error
    \* ---- the header subscription (headers are their block numbers; 0 is nil)
    hCtxDone,     \* the subscription's context is cancelled
    hfpc,         \* SubscribeNewHead: "new", "running" (returned nil)
    hCheckChan,   \* the raw channel (unbuffered: the item a blocked sender holds)
    hdpc,         \* gap detector goroutine: where it is
    lastHeader,   \* its lastHeader
    result,       \* the raw header it took last
    hStart,       \* the next missing block number
    hEnd,         \* result.Number
    hResultChan,  \* the header the detector is sending to the consumer (0: none)
    hDelivered,   \* what the consumer received, in order
    looked,       \* the block numbers HeaderByNumber was asked for since the last raw header
    hspc,         \* resubscription goroutine: where it is
    hsub,         \* the live session
    hOpens,       \* calls of fn()
    hTerms,       \* errors received from sub.Err()
    hFails,       \* calls of fn() that failed with a non-cancellation error
    \* ---- Client.BatchSendMsg (a message, its transaction and its error are named
    \*      by the message's place in the input)
    msgsSent,     \* messages the caller has sent on msgs
    msgsClosed,   \* close(msgs) was called
    bpc,          \* the sending goroutine: where it is
    msg,          \* its loop variable
    txs,          \* the buffered channel txs
    errs,         \* the buffered channel errs
    txsClosed,    \* close(txs) was called
    errsClosed,   \* close(errs) was called
    upc,          \* the caller's loop, for tx := range txs { err := <-errs }: where it is
    gotTxs,       \* the transactions it received, in order
    gotErrs,      \* the errors it received, in order
    \* ---- Client.ConfirmTx (its context is the header subscription's)
    cfpc,         \* where the call is
    nConf,        \* n, the confirmations asked for
    header,       \* the header it took last (its number)
    blockMinedTx, \* 0 for nil
    confirmed,    \* what it returned: "none" yet, "true", "false" (with nil), "err"
    \* ---- Client.SendMsg / NonceManager.PendingNonceAt, called by NGo goroutines
    npc,          \* where each goroutine's call is
    account,      \* msg.From of each call in progress (0: none)
    nonce,        \* the local variable nonce of each PendingNonceAt in progress
    lock,         \* nm.lock: the goroutine holding it (0: free)
    nonceMap,     \* nm.nonceMap: NoNonce where the map has no entry
    hist,         \* per account: the nonces PendingNonceAt returned and the calls that failed
    fetches,      \* per account: calls of nm.client.PendingNonceAt
    calls         \* calls of SendMsg made so far

logVars == <<ctxDone, fpc, remote, chain, toBlock, checkChan, chanCap, eager, dpc, lastLog,
             commingLog, start, end, vlog, l, resultChan, delivered, queried, spc, sub,
             opens, terms, fails>>

headVars == <<hCtxDone, hfpc, hCheckChan, hdpc, lastHeader, result, hStart, hEnd,
              hResultChan, hDelivered, looked, hspc, hsub, hOpens, hTerms, hFails>>

batchVars == <<msgsSent, msgsClosed, bpc, msg, txs, errs, txsClosed, errsClosed, upc,
               gotTxs, gotErrs>>

confVars == <<cfpc, nConf, header, blockMinedTx, confirmed>>

nmVars == <<npc, account, nonce, lock, nonceMap, hist, fetches, calls>>

cliVars == <<batchVars, confVars, nmVars>>

vars == <<logVars, headVars, cliVars>>

facadeVars == <<fpc, chanCap, eager>>
detVars == <<dpc, lastLog, commingLog, start, end, vlog, l, resultChan, queried>>
supVars == <<spc, sub, opens, terms, fails>>
envVars == <<remote, chain, toBlock>>

\* ------------------------------------------------------------------ remote
\* What cs.c.FilterLogs(ctx, query) may return when it succeeds.
FilterLogsResults(from, to) ==
    IF remote = "chain"
    THEN {SortLogs({x \in chain : from <= x.bn /\ (to = 0 \/ x.bn <= to)})}
    ELSE {[i \in 1..n |-> Unread] : n \in 0..MaxRes}

\* A blocked sender on an unbuffered channel holds one item.
RawCap == IF chanCap = 0 THEN 1 ELSE chanCap

\* Failures the network has injected so far.
Faults == terms + fails + (IF sub = "errored" THEN 1 ELSE 0)

\* ------------------------------------------------------------------ facade
\* SubscribeFilterlogs starting its goroutines before it looks at the error of
\* the eager query.
SubscribeFilterlogsStartFirst ==
    /\ fpc = "new"
    /\ IF ctxDone
       THEN /\ fpc' = "cancelled"
            /\ UNCHANGED <<checkChan, chanCap, eager>>
       ELSE \/ /\ fpc' = "failed"
               /\ UNCHANGED <<checkChan, chanCap, eager>>
            \/ /\ \E logs \in FilterLogsResults(1, toBlock) :
                     /\ eager' = logs
                     /\ checkChan' = logs
                     /\ chanCap' = Len(logs)
               /\ fpc' = "running"
    /\ dpc' = "select"
    /\ spc' = "open"
    /\ UNCHANGED <<ctxDone, envVars, lastLog, commingLog, start, end, vlog, l, resultChan,
                   queried, delivered, sub, opens, terms, fails, headVars, cliVars>>

\* SubscribeFilterlogs: the eager FilterLogs, the buffered checkChan, the two goroutines.
SubscribeFilterlogs ==
    /\ fpc = "new"
    /\ IF ctxDone
       THEN /\ fpc' = "cancelled"                  \* return err: the context's error
            /\ UNCHANGED <<checkChan, chanCap, eager, dpc, spc>>
       ELSE \/ /\ fpc' = "failed"                 \* return err: a failure of the remote call
               /\ UNCHANGED <<checkChan, chanCap, eager, dpc, spc>>
            \/ /\ \E logs \in FilterLogsResults(1, toBlock) :
                     /\ eager' = logs
                     /\ checkChan' = logs
                     /\ chanCap' = Len(logs)
               /\ fpc' = "running"
               /\ dpc' = "select"
               /\ spc' = "open"
    /\ UNCHANGED <<ctxDone, envVars, lastLog, commingLog, start, end, vlog, l, resultChan,
                   queried, delivered, sub, opens, terms, fails, headVars, cliVars>>

\* ------------------------------------------------------------------ gap detector
\* hasSeen with the TxIndex comparison left out.
hasSeenNoTx(lastL, commingL) ==
    \/ lastL.bn > commingL.bn
    \/ lastL.bn = commingL.bn /\ lastL.idx >= commingL.idx

\* hasSeen with > for >= on Index: the last log itself counts as new.
hasSeenStrict(lastL, commingL) ==
    \/ lastL.bn > commingL.bn
    \/ lastL.bn = commingL.bn /\ lastL.tx > commingL.tx
    \/ lastL.bn = commingL.bn /\ lastL.tx = commingL.tx /\ lastL.idx > commingL.idx

\* hasSeen comparing block numbers only.
hasSeenBlockOnly(lastL, commingL) == lastL.bn > commingL.bn

\* Report whether the comming log has seen.
hasSeen(lastL, commingL) ==
    IF lastL.bn > commingL.bn THEN TRUE
    ELSE IF lastL.bn = commingL.bn
         THEN IF lastL.tx > commingL.tx THEN TRUE
              ELSE lastL.tx = commingL.tx /\ lastL.idx >= commingL.idx
         ELSE FALSE

\* The detector sending a new raw log straight on, with no FilterLogs pass.
DetRecvDirect ==
    /\ dpc = "select"
    /\ checkChan # <<>>
    /\ \E c \in Resolve(Head(checkChan)) :
        /\ checkChan' = Tail(checkChan)
        /\ commingLog' = c
        /\ IF lastLog = NilLog \/ ~hasSeen(lastLog, c)
           THEN /\ lastLog' = c
                /\ resultChan' = c
                /\ dpc' = "sendFirst"
           ELSE UNCHANGED <<lastLog, resultChan, dpc>>
    /\ UNCHANGED <<ctxDone, facadeVars, envVars, start, end, vlog, l, queried, delivered,
                   supVars, headVars, cliVars>>

\* The detector keeping the first raw log as lastLog without sending it.
DetRecvDropFirst ==
    /\ dpc = "select"
    /\ checkChan # <<>>
    /\ \E c \in Resolve(Head(checkChan)) :
        /\ checkChan' = Tail(checkChan)
        /\ commingLog' = c
        /\ IF lastLog = NilLog
           THEN /\ lastLog' = c
                /\ UNCHANGED <<resultChan, dpc, start, end>>
           ELSE IF hasSeen(lastLog, c)
           THEN UNCHANGED <<lastLog, resultChan, dpc, start, end>>
           ELSE /\ start' = lastLog.bn
                /\ end' = c.bn
                /\ dpc' = "loop"
                /\ UNCHANGED <<lastLog, resultChan>>
    /\ UNCHANGED <<ctxDone, facadeVars, envVars, vlog, l, queried, delivered, supVars, headVars, cliVars>>

\* The detector taking the next raw log while its send of the first one is
\* still pending, the pending log being given up.
DetRecvWhileSending ==
    /\ dpc \in {"select", "sendFirst"}
    /\ checkChan # <<>>
    /\ \E c \in Resolve(Head(checkChan)) :
        /\ checkChan' = Tail(checkChan)
        /\ commingLog' = c
        /\ IF lastLog = NilLog
           THEN /\ lastLog' = c
                /\ resultChan' = c
                /\ dpc' = "sendFirst"
                /\ UNCHANGED <<start, end>>
           ELSE IF hasSeen(lastLog, c)
           THEN UNCHANGED <<lastLog, resultChan, dpc, start, end>>
           ELSE /\ start' = lastLog.bn
                /\ end' = c.bn
                /\ dpc' = "loop"
                /\ UNCHANGED <<lastLog, resultChan>>
    /\ UNCHANGED <<ctxDone, facadeVars, envVars, vlog, l, queried, delivered, supVars, headVars, cliVars>>

\* case commingLog := <-checkChan
DetRecv ==
    /\ dpc = "select"
    /\ checkChan # <<>>
    /\ \E c \in Resolve(Head(checkChan)) :
        /\ checkChan' = Tail(checkChan)
        /\ commingLog' = c
        /\ IF lastLog = NilLog
           THEN /\ lastLog' = c
                /\ resultChan' = c
                /\ dpc' = "sendFirst"
                /\ UNCHANGED <<start, end>>
           ELSE IF hasSeen(lastLog, c)
           THEN UNCHANGED <<lastLog, resultChan, dpc, start, end>>
           ELSE /\ start' = lastLog.bn
                /\ end' = c.bn
                /\ dpc' = "loop"
                /\ UNCHANGED <<lastLog, resultChan>>
    /\ UNCHANGED <<ctxDone, facadeVars, envVars, vlog, l, queried, delivered, supVars, headVars, cliVars>>

\* The pass sending the logs it finds without recording them in lastLog.
DetRangeNoLastLog ==
    /\ dpc = "range"
    /\ IF vlog = <<>>
       THEN /\ start' = end + 1
            /\ l' = NilLog
            /\ dpc' = "select"
            /\ UNCHANGED <<vlog, lastLog, resultChan>>
       ELSE \E x \in Resolve(Head(vlog)) :
            /\ vlog' = Tail(vlog)
            /\ l' = x
            /\ UNCHANGED <<start, lastLog>>
            /\ IF hasSeen(lastLog, x)
               THEN UNCHANGED <<resultChan, dpc>>
               ELSE /\ resultChan' = x
                    /\ dpc' = "sendMissing"
    /\ UNCHANGED <<ctxDone, facadeVars, envVars, checkChan, commingLog, end, queried,
                   delivered, supVars, headVars, cliVars>>

\* case <-ctx.Done()
DetCtxDone ==
    /\ dpc = "select"
    /\ ctxDone
    /\ dpc' = "done"
    /\ UNCHANGED <<ctxDone, facadeVars, envVars, checkChan, lastLog, commingLog, start, end,
                   vlog, l, resultChan, queried, delivered, supVars, headVars, cliVars>>

\* The backfill query with the context's error handled like any other error.
DetFilterLogsRetryOnCancel ==
    /\ dpc = "loop"
    /\ start <= end
    /\ queried' = <<start, toBlock>>
    /\ \/ /\ dpc' = "sleep"
          /\ UNCHANGED vlog
       \/ /\ ~ctxDone
          /\ \E r \in FilterLogsResults(start, toBlock) : vlog' = r
          /\ dpc' = "range"
    /\ UNCHANGED <<ctxDone, facadeVars, envVars, checkChan, lastLog, commingLog, start, end,
                   l, resultChan, delivered, supVars, headVars, cliVars>>

\* for start <= end { query.FromBlock = start; vlog, err := cs.c.FilterLogs(ctx, query)
DetFilterLogs ==
    /\ dpc = "loop"
    /\ start <= end
    /\ queried' = <<start, toBlock>>
    /\ IF ctxDone
       THEN /\ dpc' = "done"                       \* context.Canceled / DeadlineExceeded
            /\ UNCHANGED vlog
       ELSE \/ /\ dpc' = "sleep"                   \* any other error
               /\ UNCHANGED vlog
            \/ /\ \E r \in FilterLogsResults(start, toBlock) : vlog' = r
               /\ dpc' = "range"
    /\ UNCHANGED <<ctxDone, facadeVars, envVars, checkChan, lastLog, commingLog, start, end,
                   l, resultChan, delivered, supVars, headVars, cliVars>>

\* The retry giving the range up after the delay.
DetSleepSkip ==
    /\ dpc = "sleep"
    /\ start' = end + 1
    /\ dpc' = "select"
    /\ UNCHANGED <<ctxDone, facadeVars, envVars, checkChan, lastLog, commingLog, end,
                   vlog, l, resultChan, queried, delivered, supVars, headVars, cliVars>>

\* time.Sleep(reconnectInterval); continue
DetSleep ==
    /\ dpc = "sleep"
    /\ dpc' = "loop"
    /\ UNCHANGED <<ctxDone, facadeVars, envVars, checkChan, lastLog, commingLog, start, end,
                   vlog, l, resultChan, queried, delivered, supVars, headVars, cliVars>>

\* The pass over an exhausted result going round the loop again, start left as it was.
DetRangeNoAdvance ==
    /\ dpc = "range"
    /\ IF vlog = <<>>
       THEN /\ l' = NilLog
            /\ dpc' = "loop"
            /\ UNCHANGED <<start, vlog, lastLog, resultChan>>
       ELSE \E x \in Resolve(Head(vlog)) :
            /\ vlog' = Tail(vlog)
            /\ l' = x
            /\ UNCHANGED start
            /\ IF hasSeen(lastLog, x)
               THEN UNCHANGED <<lastLog, resultChan, dpc>>
               ELSE /\ lastLog' = x
                    /\ resultChan' = x
                    /\ dpc' = "sendMissing"
    /\ UNCHANGED <<ctxDone, facadeVars, envVars, checkChan, commingLog, end, queried,
                   delivered, supVars, headVars, cliVars>>

\* for _, l := range vlog { if hasSeen(*lastLog, l) { continue }; lastLog = &l;
\* resultChan <- l }; start = end + 1
DetRange ==
    /\ dpc = "range"
    /\ IF vlog = <<>>
       THEN /\ start' = end + 1
            /\ l' = NilLog
            /\ dpc' = "select"                     \* start <= end is false now
            /\ UNCHANGED <<vlog, lastLog, resultChan>>
       ELSE \E x \in Resolve(Head(vlog)) :
            /\ vlog' = Tail(vlog)
            /\ l' = x
            /\ UNCHANGED start
            /\ IF hasSeen(lastLog, x)
               THEN UNCHANGED <<lastLog, resultChan, dpc>>
               ELSE /\ lastLog' = x
                    /\ resultChan' = x
                    /\ dpc' = "sendMissing"
    /\ UNCHANGED <<ctxDone, facadeVars, envVars, checkChan, commingLog, end, queried,
                   delivered, supVars, headVars, cliVars>>

\* The consumer receives from resultChan: the blocked send completes.
ConsumerRecv ==
    /\ dpc \in {"sendFirst", "sendMissing"}
    /\ delivered' = Append(delivered, resultChan)
    /\ resultChan' = NilLog
    /\ dpc' = IF dpc = "sendFirst" THEN "select" ELSE "range"
    /\ UNCHANGED <<ctxDone, facadeVars, envVars, checkChan, lastLog, commingLog, start, end,
                   vlog, l, queried, supVars, headVars, cliVars>>

\* ------------------------------------------------------------------ supervisor
\* The open attempt retried at once after a failure, without the delay.
SupOpenNoBackoff ==
    /\ spc = "open"
    /\ opens' = opens + 1
    /\ IF ctxDone
       THEN /\ spc' = "stopped"
            /\ UNCHANGED <<sub, fails>>
       ELSE \/ /\ sub' = "live"
               /\ spc' = "active"
               /\ UNCHANGED fails
            \/ /\ Faults < MaxFaults
               /\ fails' = fails + 1
               /\ spc' = "open"
               /\ UNCHANGED sub
    /\ UNCHANGED <<ctxDone, facadeVars, envVars, checkChan, detVars, delivered, terms, headVars, cliVars>>

\* sub, err := fn()
SupOpen ==
    /\ spc = "open"
    /\ opens' = opens + 1
    /\ IF ctxDone
       THEN /\ spc' = "stopped"                    \* err == context.Canceled
            /\ UNCHANGED <<sub, fails>>
       ELSE \/ /\ sub' = "live"
               /\ spc' = "active"
               /\ UNCHANGED fails
            \/ /\ Faults < MaxFaults
               /\ fails' = fails + 1
               /\ spc' = "sleep"
               /\ UNCHANGED sub
    /\ UNCHANGED <<ctxDone, facadeVars, envVars, checkChan, detVars, delivered, terms, headVars, cliVars>>

\* time.Sleep(reconnectInterval) is over
SupWake ==
    /\ spc = "sleep"
    /\ spc' = "open"
    /\ UNCHANGED <<ctxDone, facadeVars, envVars, checkChan, detVars, delivered, sub, opens,
                   terms, fails, headVars, cliVars>>

\* The termination branch without its time.Sleep(reconnectInterval).
SupSubErrNoSleep ==
    /\ spc = "active"
    /\ sub = "errored"
    /\ terms' = terms + 1
    /\ sub' = "closed"
    /\ spc' = "open"
    /\ UNCHANGED <<ctxDone, facadeVars, envVars, checkChan, detVars, delivered, opens, fails,
                   headVars, cliVars>>

\* The termination branch without its sub.Unsubscribe().
SupSubErrNoUnsubscribe ==
    /\ spc = "active"
    /\ sub = "errored"
    /\ terms' = terms + 1
    /\ spc' = "sleep"
    /\ UNCHANGED <<ctxDone, facadeVars, envVars, checkChan, detVars, delivered, sub, opens,
                   fails, headVars, cliVars>>

\* case err := <-sub.Err(): sub.Unsubscribe(); time.Sleep(reconnectInterval)
SupSubErr ==
    /\ spc = "active"
    /\ sub = "errored"
    /\ terms' = terms + 1
    /\ sub' = "closed"
    /\ spc' = "sleep"
    /\ UNCHANGED <<ctxDone, facadeVars, envVars, checkChan, detVars, delivered, opens, fails, headVars, cliVars>>

\* The select without its ctx.Done() case.
SupCtxDoneMissing ==
    /\ FALSE
    /\ UNCHANGED vars

\* case <-ctx.Done()
SupCtxDone ==
    /\ spc = "active"
    /\ ctxDone
    /\ spc' = "stopped"
    /\ UNCHANGED <<ctxDone, facadeVars, envVars, checkChan, detVars, delivered, sub, opens,
                   terms, fails, headVars, cliVars>>

\* ------------------------------------------------------------------ environment
\* The live session pushes a log into checkChan.
SessionPush ==
    /\ sub = "live"
    /\ Len(checkChan) < RawCap
    /\ IF remote = "chain"
       THEN \E x \in Log :
               /\ \A c \in chain : KeyLess(c, x)       \* a log just mined
               /\ chain' = chain \cup {x}
               /\ checkChan' = Append(checkChan, x)
       ELSE /\ checkChan' = Append(checkChan, Unread)
            /\ UNCHANGED chain
    /\ UNCHANGED <<ctxDone, facadeVars, remote, toBlock, detVars, delivered, supVars, headVars, cliVars>>

\* The connection is lost: the session reports an error on Err().
SessionFail ==
    /\ sub = "live"
    /\ Faults < MaxFaults
    /\ sub' = "errored"
    /\ UNCHANGED <<ctxDone, facadeVars, envVars, checkChan, detVars, delivered, spc, opens,
                   terms, fails, headVars, cliVars>>

\* The caller cancels the context (or its deadline passes).
Cancel ==
    /\ ~ctxDone
    /\ ctxDone' = TRUE
    /\ UNCHANGED <<facadeVars, envVars, checkChan, detVars, delivered, supVars, headVars, cliVars>>

\* ================================================================== headers
\* A raw header the session has pushed and the detector has not read yet.
HUnread == -1

Header == 1..MaxHead

HResolve(x) == IF x = HUnread THEN Header ELSE {x}

\* cs.c.HeaderByNumber(ctx, start), when it succeeds: the header numbered start.
HeaderByNumber(n) == n

\* The duplicate test with > 0 for >= 0.
IsDuplicateHeaderStrict(last, res) == last > res

\* lastHeader.Number.Cmp(result.Number) >= 0
IsDuplicateHeader(last, res) == last >= res

\* The missing headers taken to start two after lastHeader.
FirstMissingSkip(last) == last + 2

\* The missing headers taken to start at lastHeader itself.
FirstMissingFromLast(last) == last

\* new(big.Int).Add(lastHeader.Number, big.NewInt(1))
FirstMissing(last) == last + 1

\* SubscribeNewHead: the unbuffered checkChan, the two goroutines; returns nil.
SubscribeNewHead ==
    /\ hfpc = "new"
    /\ hfpc' = "running"
    /\ hdpc' = "select"
    /\ hspc' = "open"
    /\ UNCHANGED <<hCtxDone, hCheckChan, lastHeader, result, hStart, hEnd, hResultChan,
                   hDelivered, looked, hsub, hOpens, hTerms, hFails, logVars, cliVars>>

\* case result := <-checkChan
HDetRecv ==
    /\ hdpc = "select"
    /\ hCheckChan # <<>>
    /\ \E r \in HResolve(Head(hCheckChan)) :
        /\ hCheckChan' = Tail(hCheckChan)
        /\ result' = r
        /\ looked' = {}
        /\ IF lastHeader # 0
           THEN IF IsDuplicateHeader(lastHeader, r)
                THEN UNCHANGED <<hdpc, hStart, hEnd, lastHeader, hResultChan>>   \* continue
                ELSE /\ hStart' = FirstMissing(lastHeader)
                     /\ hEnd' = r
                     /\ hdpc' = "loop"
                     /\ UNCHANGED <<lastHeader, hResultChan>>
           ELSE /\ lastHeader' = r
                /\ hResultChan' = r
                /\ hdpc' = "sendResult"
                /\ UNCHANGED <<hStart, hEnd>>
    /\ UNCHANGED <<hCtxDone, hfpc, hDelivered, hspc, hsub, hOpens, hTerms, hFails, logVars, cliVars>>

\* case <-ctx.Done()
HDetCtxDone ==
    /\ hdpc = "select"
    /\ hCtxDone
    /\ hdpc' = "done"
    /\ UNCHANGED <<hCtxDone, hfpc, hCheckChan, lastHeader, result, hStart, hEnd, hResultChan,
                   hDelivered, looked, hspc, hsub, hOpens, hTerms, hFails, logVars, cliVars>>

\* for start.Cmp(end) < 0 { header, err := cs.c.HeaderByNumber(ctx, start); switch err
HDetHeaderByNumber ==
    /\ hdpc = "loop"
    /\ hStart < hEnd
    /\ looked' = looked \cup {hStart}
    /\ IF hCtxDone
       THEN /\ hdpc' = "done"                      \* context.DeadlineExceeded, context.Canceled
            /\ UNCHANGED <<hStart, hResultChan>>
       ELSE \/ /\ hdpc' = "sleep"                  \* ethereum.NotFound, or any other error
               /\ UNCHANGED <<hStart, hResultChan>>
            \/ /\ hStart' = hStart + 1             \* nil
               /\ hResultChan' = HeaderByNumber(hStart)
               /\ hdpc' = "sendMissing"
    /\ UNCHANGED <<hCtxDone, hfpc, hCheckChan, lastHeader, result, hEnd, hDelivered, hspc,
                   hsub, hOpens, hTerms, hFails, logVars, cliVars>>

\* time.Sleep(reconnectInterval); continue
HDetSleep ==
    /\ hdpc = "sleep"
    /\ hdpc' = "loop"
    /\ UNCHANGED <<hCtxDone, hfpc, hCheckChan, lastHeader, result, hStart, hEnd, hResultChan,
                   hDelivered, looked, hspc, hsub, hOpens, hTerms, hFails, logVars, cliVars>>

\* the loop is over: lastHeader = result; resultChan <- result
HDetSendResult ==
    /\ hdpc = "loop"
    /\ ~(hStart < hEnd)
    /\ lastHeader' = result
    /\ hResultChan' = result
    /\ hdpc' = "sendResult"
    /\ UNCHANGED <<hCtxDone, hfpc, hCheckChan, result, hStart, hEnd, hDelivered, looked,
                   hspc, hsub, hOpens, hTerms, hFails, logVars, cliVars>>

\* The consumer receives from resultChan: the blocked send completes.
HConsumerRecv ==
    /\ hdpc \in {"sendMissing", "sendResult"}
    /\ hDelivered' = Append(hDelivered, hResultChan)
    /\ hResultChan' = 0
    /\ hdpc' = IF hdpc = "sendMissing" THEN "loop" ELSE "select"
    /\ UNCHANGED <<hCtxDone, hfpc, hCheckChan, lastHeader, result, hStart, hEnd, looked,
                   hspc, hsub, hOpens, hTerms, hFails, logVars, cliVars>>

\* Failures the network has injected so far.
HFaults == hTerms + hFails + (IF hsub = "errored" THEN 1 ELSE 0)

\* sub, err := fn()
HSupOpen ==
    /\ hspc = "open"
    /\ hOpens' = hOpens + 1
    /\ IF hCtxDone
       THEN /\ hspc' = "stopped"                   \* err == context.Canceled
            /\ UNCHANGED <<hsub, hFails>>
       ELSE \/ /\ hsub' = "live"
               /\ hspc' = "active"
               /\ UNCHANGED hFails
            \/ /\ HFaults < MaxFaults
               /\ hFails' = hFails + 1
               /\ hspc' = "sleep"
               /\ UNCHANGED hsub
    /\ UNCHANGED <<hCtxDone, hfpc, hCheckChan, hdpc, lastHeader, result, hStart, hEnd,
                   hResultChan, hDelivered, looked, hTerms, logVars, cliVars>>

\* time.Sleep(reconnectInterval) is over
HSupWake ==
    /\ hspc = "sleep"
    /\ hspc' = "open"
    /\ UNCHANGED <<hCtxDone, hfpc, hCheckChan, hdpc, lastHeader, result, hStart, hEnd,
                   hResultChan, hDelivered, looked, hsub, hOpens, hTerms, hFails, logVars, cliVars>>

\* select { case err := <-sub.Err(): sub.Unsubscribe(); time.Sleep(reconnectInterval) }
HSupSubErr ==
    /\ hspc = "active"
    /\ hsub = "errored"
    /\ hTerms' = hTerms + 1
    /\ hsub' = "closed"
    /\ hspc' = "sleep"
    /\ UNCHANGED <<hCtxDone, hfpc, hCheckChan, hdpc, lastHeader, result, hStart, hEnd,
                   hResultChan, hDelivered, looked, hOpens, hFails, logVars, cliVars>>

\* The live session pushes a header into checkChan.
HSessionPush ==
    /\ hsub = "live"
    /\ hCheckChan = <<>>
    /\ hCheckChan' = <<HUnread>>
    /\ UNCHANGED <<hCtxDone, hfpc, hdpc, lastHeader, result, hStart, hEnd, hResultChan,
                   hDelivered, looked, hspc, hsub, hOpens, hTerms, hFails, logVars, cliVars>>

\* The connection is lost: the session reports an error on Err().
HSessionFail ==
    /\ hsub = "live"
    /\ HFaults < MaxFaults
    /\ hsub' = "errored"
    /\ UNCHANGED <<hCtxDone, hfpc, hCheckChan, hdpc, lastHeader, result, hStart, hEnd,
                   hResultChan, hDelivered, looked, hspc, hOpens, hTerms, hFails, logVars, cliVars>>

\* The caller cancels the context (or its deadline passes).
HCancel ==
    /\ ~hCtxDone
    /\ hCtxDone' = TRUE
    /\ UNCHANGED <<hfpc, hCheckChan, hdpc, lastHeader, result, hStart, hEnd, hResultChan,
                   hDelivered, looked, hspc, hsub, hOpens, hTerms, hFails, logVars, cliVars>>

\* The header subscription before its goroutines are started.
HeadIdle ==
    /\ hCtxDone = FALSE
    /\ hCheckChan = <<>>
    /\ hdpc = "idle"
    /\ lastHeader = 0
    /\ result = 0
    /\ hStart = 0
    /\ hEnd = 0
    /\ hResultChan = 0
    /\ hDelivered = <<>>
    /\ looked = {}
    /\ hspc = "idle"
    /\ hsub = "none"
    /\ hOpens = 0
    /\ hTerms = 0
    /\ hFails = 0

InitHead ==
    /\ hfpc = "new"
    /\ HeadIdle

\* ================================================================== Client.BatchSendMsg
\* txs := make(chan *types.Transaction, 10); errs := make(chan error, 10)
TxsCap == 10
ErrsCap == 10

\* c.SendMsg(ctx, msg): the transaction and the error of message m (one of them
\* nil), which nothing in BatchSendMsg looks at.
SendMsg(m) == [tx |-> m, err |-> m]

\* BatchSendMsg: makes the two channels, starts the goroutine, returns them; the
\* caller starts its loop.
BatchSendMsg ==
    /\ bpc = "new"
    /\ bpc' = "range"
    /\ upc' = "range"
    /\ UNCHANGED <<msgsSent, msgsClosed, msg, txs, errs, txsClosed, errsClosed, gotTxs,
                   gotErrs, confVars, nmVars, logVars, headVars>>

\* for msg := range msgs: the caller's send on the unbuffered msgs meets the
\* goroutine's receive; tx, err := c.SendMsg(ctx, msg)
BatchRecvMsg ==
    /\ bpc = "range"
    /\ ~msgsClosed
    /\ msgsSent < MaxMsgs
    /\ msgsSent' = msgsSent + 1
    /\ msg' = msgsSent + 1
    /\ bpc' = "sendTx"
    /\ UNCHANGED <<msgsClosed, txs, errs, txsClosed, errsClosed, upc, gotTxs, gotErrs,
                   confVars, nmVars, logVars, headVars>>

\* txs <- tx
BatchSendTx ==
    /\ bpc = "sendTx"
    /\ Len(txs) < TxsCap
    /\ txs' = Append(txs, SendMsg(msg).tx)
    /\ bpc' = "sendErr"
    /\ UNCHANGED <<msgsSent, msgsClosed, msg, errs, txsClosed, errsClosed, upc, gotTxs,
                   gotErrs, confVars, nmVars, logVars, headVars>>

\* The loop body without its errs <- err.
BatchSendErrSkip ==
    /\ bpc = "sendErr"
    /\ bpc' = "range"
    /\ UNCHANGED <<msgsSent, msgsClosed, msg, txs, errs, txsClosed, errsClosed, upc, gotTxs,
                   gotErrs, confVars, nmVars, logVars, headVars>>

\* errs <- err
BatchSendErr ==
    /\ bpc = "sendErr"
    /\ Len(errs) < ErrsCap
    /\ errs' = Append(errs, SendMsg(msg).err)
    /\ bpc' = "range"
    /\ UNCHANGED <<msgsSent, msgsClosed, msg, txs, txsClosed, errsClosed, upc, gotTxs,
                   gotErrs, confVars, nmVars, logVars, headVars>>

\* msgs is closed: the range ends; close(txs)
BatchCloseTxs ==
    /\ bpc = "range"
    /\ msgsClosed
    /\ txsClosed' = TRUE
    /\ bpc' = "closeErrs"
    /\ UNCHANGED <<msgsSent, msgsClosed, msg, txs, errs, errsClosed, upc, gotTxs, gotErrs,
                   confVars, nmVars, logVars, headVars>>

\* close(errs)
BatchCloseErrs ==
    /\ bpc = "closeErrs"
    /\ errsClosed' = TRUE
    /\ bpc' = "done"
    /\ UNCHANGED <<msgsSent, msgsClosed, msg, txs, errs, txsClosed, upc, gotTxs, gotErrs,
                   confVars, nmVars, logVars, headVars>>

\* The caller's goroutine: close(mesgs) after its last message.
CallerClose ==
    /\ bpc # "new"
    /\ ~msgsClosed
    /\ msgsClosed' = TRUE
    /\ UNCHANGED <<msgsSent, bpc, msg, txs, errs, txsClosed, errsClosed, upc, gotTxs,
                   gotErrs, confVars, nmVars, logVars, headVars>>

\* for tx := range txs: a transaction is received, or txs is closed and drained
CallerRangeTxs ==
    /\ upc = "range"
    /\ IF txs # <<>>
       THEN /\ gotTxs' = Append(gotTxs, Head(txs))
            /\ txs' = Tail(txs)
            /\ upc' = "readErr"
       ELSE /\ txsClosed
            /\ upc' = "done"
            /\ UNCHANGED <<gotTxs, txs>>
    /\ UNCHANGED <<msgsSent, msgsClosed, bpc, msg, errs, txsClosed, errsClosed, gotErrs,
                   confVars, nmVars, logVars, headVars>>

\* err := <-errs: an error is received, or errs is closed and drained (nil, 0 here)
CallerReadErr ==
    /\ upc = "readErr"
    /\ IF errs # <<>>
       THEN /\ gotErrs' = Append(gotErrs, Head(errs))
            /\ errs' = Tail(errs)
       ELSE /\ errsClosed
            /\ gotErrs' = Append(gotErrs, 0)
            /\ UNCHANGED errs
    /\ upc' = "range"
    /\ UNCHANGED <<msgsSent, msgsClosed, bpc, msg, txs, txsClosed, errsClosed, gotTxs,
                   confVars, nmVars, logVars, headVars>>

\* BatchSendMsg before it is called (bpc is "new"), or never called ("unused").
BatchIdle ==
    /\ msgsSent = 0
    /\ msgsClosed = FALSE
    /\ msg = 0
    /\ txs = <<>>
    /\ errs = <<>>
    /\ txsClosed = FALSE
    /\ errsClosed = FALSE
    /\ upc = "idle"
    /\ gotTxs = <<>>
    /\ gotErrs = <<>>

\* ================================================================== Client.ConfirmTx
\* ctx is context.WithTimeout(.., timeout): HCancel is the timeout, and the
\* deferred cancel() cancels it on every return.
\* headerChan := make(chan *types.Header); err := c.SubscribeNewHead(ctx, headerChan)
ConfirmTx ==
    /\ cfpc = "new"
    /\ hfpc = "new"
    /\ hfpc' = "running"                           \* SubscribeNewHead returns nil
    /\ hdpc' = "select"
    /\ hspc' = "open"
    /\ cfpc' = "select"
    /\ UNCHANGED <<hCtxDone, hCheckChan, lastHeader, result, hStart, hEnd, hResultChan,
                   hDelivered, looked, hsub, hOpens, hTerms, hFails, nConf, header,
                   blockMinedTx, confirmed, batchVars, nmVars, logVars>>

\* case header := <-headerChan
ConfirmRecvHeader ==
    /\ cfpc = "select"
    /\ hdpc \in {"sendMissing", "sendResult"}
    /\ header' = hResultChan
    /\ hDelivered' = Append(hDelivered, hResultChan)
    /\ hResultChan' = 0
    /\ hdpc' = IF hdpc = "sendMissing" THEN "loop" ELSE "select"
    /\ cfpc' = "byHash"
    /\ UNCHANGED <<hCtxDone, hfpc, hCheckChan, lastHeader, result, hStart, hEnd, looked,
                   hspc, hsub, hOpens, hTerms, hFails, nConf, blockMinedTx, confirmed,
                   batchVars, nmVars, logVars>>

\* currBlock, err := c.rawClient.BlockByHash(ctx, header.Hash()) and what follows,
\* up to the next select, the re-check or a return
ConfirmBlockByHash ==
    /\ cfpc = "byHash"
    /\ IF hCtxDone
       THEN /\ confirmed' = "err"                  \* return false, err (the context's)
            /\ cfpc' = "ret"
            /\ UNCHANGED <<blockMinedTx, hCtxDone>>
       ELSE \/ /\ confirmed' = "err"               \* return false, err
               /\ cfpc' = "ret"
               /\ hCtxDone' = TRUE
               /\ UNCHANGED blockMinedTx
            \/ \E contains \in BOOLEAN :           \* currBlock.Transaction(txHash) != nil
                 /\ IF blockMinedTx = 0
                    THEN /\ blockMinedTx' = IF contains THEN header ELSE 0
                         /\ cfpc' = "select"
                    ELSE /\ cfpc' = IF header >= blockMinedTx + nConf THEN "byNumber"
                                    ELSE "select"
                         /\ UNCHANGED blockMinedTx
                 /\ UNCHANGED <<confirmed, hCtxDone>>
    /\ UNCHANGED <<hfpc, hCheckChan, hdpc, lastHeader, result, hStart, hEnd, hResultChan,
                   hDelivered, looked, hspc, hsub, hOpens, hTerms, hFails, nConf, header,
                   batchVars, nmVars, logVars>>

\* block, err := c.rawClient.BlockByNumber(ctx, blockMinedTx) and the return
ConfirmBlockByNumber ==
    /\ cfpc = "byNumber"
    /\ IF hCtxDone
       THEN confirmed' = "err"                     \* return false, err (the context's)
       ELSE \/ confirmed' = "err"                  \* return false, err
            \/ confirmed' = "false"                \* block.Transaction(txHash) == nil
            \/ confirmed' = "true"
    /\ cfpc' = "ret"
    /\ hCtxDone' = TRUE
    /\ UNCHANGED <<hfpc, hCheckChan, hdpc, lastHeader, result, hStart, hEnd, hResultChan,
                   hDelivered, looked, hspc, hsub, hOpens, hTerms, hFails, nConf, header,
                   blockMinedTx, batchVars, nmVars, logVars>>

\* case <-ctx.Done(): return false, nil
ConfirmCtxDone ==
    /\ cfpc = "select"
    /\ hCtxDone
    /\ confirmed' = "false"
    /\ cfpc' = "ret"
    /\ UNCHANGED <<hCtxDone, hfpc, hCheckChan, hdpc, lastHeader, result, hStart, hEnd,
                   hResultChan, hDelivered, looked, hspc, hsub, hOpens, hTerms, hFails, nConf,
                   header, blockMinedTx, batchVars, nmVars, logVars>>

\* ConfirmTx before it is called (cfpc is "new"), or never called ("unused").
ConfirmIdle ==
    /\ header = 0
    /\ blockMinedTx = 0
    /\ confirmed = "none"

\* ================================================================== Client.SendMsg, NonceManager
Go == 1..NGo

Account == 1..NAcct

\* nonce, ok := nm.nonceMap[account] with ok false.
NoNonce == -1

\* Entries of hist that are not nonces: a SendMsg of the account that failed in
\* NewTransaction before PendingNonceAt; a PendingNonceAt whose remote call failed.
GasFailed == -2
FetchFailed == -3

\* What nm.client.PendingNonceAt(ctx, account) may return when it succeeds. The
\* values are far below 2^64, where nonce + 1 does not wrap.
PendingNonces == 0..MaxPending

\* The goroutine g returns from SendMsg.
Return(g) ==
    /\ npc' = [npc EXCEPT ![g] = "idle"]
    /\ account' = [account EXCEPT ![g] = 0]
    /\ nonce' = [nonce EXCEPT ![g] = 0]

\* SendMsg: if msg.PrivateKey == nil { return nil, ErrMessagePrivateKeyNil };
\* msg.From = crypto.PubkeyToAddress(msg.PrivateKey.PublicKey)
SendMsgKey ==
    \E g \in Go :
        /\ npc[g] = "idle"
        /\ calls < MaxCalls
        /\ calls' = calls + 1
        /\ \/ UNCHANGED <<npc, account>>                     \* the key is nil
           \/ \E acc \in Account :
                /\ account' = [account EXCEPT ![g] = acc]
                /\ npc' = [npc EXCEPT ![g] = "newTx"]
        /\ UNCHANGED <<nonce, lock, nonceMap, hist, fetches, batchVars, confVars, logVars, headVars>>

\* NewTransaction up to the call of c.nm.PendingNonceAt: EstimateGas (when
\* msg.Gas == 0) and SuggestGasPrice (when msg.GasPrice is nil or 0) may fail.
NewTransaction ==
    \E g \in Go :
        /\ npc[g] = "newTx"
        /\ \/ /\ hist' = [hist EXCEPT ![account[g]] = Append(@, GasFailed)]
              /\ Return(g)                                   \* return nil, err
           \/ /\ npc' = [npc EXCEPT ![g] = "lock"]
              /\ UNCHANGED <<account, nonce, hist>>
        /\ UNCHANGED <<lock, nonceMap, fetches, calls, batchVars, confVars, logVars, headVars>>

\* PendingNonceAt entering without waiting for the mutex to be free.
PendingNonceAtNoLock ==
    \E g \in Go :
        /\ npc[g] = "lock"
        /\ lock' = g
        /\ npc' = [npc EXCEPT ![g] = "lookup"]
        /\ UNCHANGED <<account, nonce, nonceMap, hist, fetches, calls, batchVars, confVars,
                       logVars, headVars>>

\* nm.lock.Lock()
PendingNonceAtLock ==
    \E g \in Go :
        /\ npc[g] = "lock"
        /\ lock = 0
        /\ lock' = g
        /\ npc' = [npc EXCEPT ![g] = "lookup"]
        /\ UNCHANGED <<account, nonce, nonceMap, hist, fetches, calls, batchVars, confVars,
                       logVars, headVars>>

\* The lookup going on to the assignment after a failed remote call, nonce being 0.
PendingNonceAtLookupIgnoreErr ==
    \E g \in Go :
        /\ npc[g] = "lookup"
        /\ IF nonceMap[account[g]] # NoNonce
           THEN /\ nonce' = [nonce EXCEPT ![g] = nonceMap[account[g]]]
                /\ npc' = [npc EXCEPT ![g] = "store"]
                /\ UNCHANGED <<account, lock, hist, fetches>>
           ELSE /\ fetches' = [fetches EXCEPT ![account[g]] = @ + 1]
                /\ \/ /\ hist' = [hist EXCEPT ![account[g]] = Append(@, FetchFailed)]
                      /\ npc' = [npc EXCEPT ![g] = "store"]
                      /\ UNCHANGED <<account, nonce, lock>>
                   \/ \E c \in PendingNonces :
                        /\ nonce' = [nonce EXCEPT ![g] = c]
                        /\ npc' = [npc EXCEPT ![g] = "store"]
                        /\ UNCHANGED <<account, lock, hist>>
        /\ UNCHANGED <<nonceMap, calls, batchVars, confVars, logVars, headVars>>

\* nonce, ok := nm.nonceMap[account]; if !ok { nonce, err =
\* nm.client.PendingNonceAt(ctx, account); if err != nil { return 0, err } }
PendingNonceAtLookup ==
    \E g \in Go :
        /\ npc[g] = "lookup"
        /\ IF nonceMap[account[g]] # NoNonce
           THEN /\ nonce' = [nonce EXCEPT ![g] = nonceMap[account[g]]]
                /\ npc' = [npc EXCEPT ![g] = "store"]
                /\ UNCHANGED <<account, lock, hist, fetches>>
           ELSE /\ fetches' = [fetches EXCEPT ![account[g]] = @ + 1]
                /\ \/ /\ hist' = [hist EXCEPT ![account[g]] = Append(@, FetchFailed)]
                      /\ lock' = 0                           \* the deferred Unlock
                      /\ Return(g)                           \* SendMsg returns the error
                   \/ \E c \in PendingNonces :
                        /\ nonce' = [nonce EXCEPT ![g] = c]
                        /\ npc' = [npc EXCEPT ![g] = "store"]
                        /\ UNCHANGED <<account, lock, hist>>
        /\ UNCHANGED <<nonceMap, calls, batchVars, confVars, logVars, headVars>>

\* nm.nonceMap[account] = nonce + 1; return nonce, nil (and the deferred Unlock)
PendingNonceAtStore ==
    \E g \in Go :
        /\ npc[g] = "store"
        /\ nonceMap' = [nonceMap EXCEPT ![account[g]] = nonce[g] + 1]
        /\ hist' = [hist EXCEPT ![account[g]] = Append(@, nonce[g])]
        /\ lock' = 0
        /\ npc' = [npc EXCEPT ![g] = "send"]
        /\ UNCHANGED <<account, nonce, fetches, calls, batchVars, confVars, logVars, headVars>>

\* The rest of SendMsg: types.NewTransaction, ChainID, SignTx, SendTransaction;
\* it returns the signed transaction or an error.
SendMsgTransmit ==
    \E g \in Go :
        /\ npc[g] = "send"
        /\ Return(g)
        /\ UNCHANGED <<lock, nonceMap, hist, fetches, calls, batchVars, confVars, logVars, headVars>>

\* The NonceManager as NewNonceManager makes it, no call in progress.
NmIdle ==
    /\ account = [g \in Go |-> 0]
    /\ nonce = [g \in Go |-> 0]
    /\ lock = 0
    /\ nonceMap = [acc \in Account |-> NoNonce]
    /\ hist = [acc \in Account |-> <<>>]
    /\ fetches = [acc \in Account |-> 0]
    /\ calls = 0

\* A program that calls neither BatchSendMsg nor ConfirmTx.
CliUnused ==
    /\ bpc = "unused"
    /\ BatchIdle
    /\ cfpc = "unused"
    /\ nConf = 0
    /\ ConfirmIdle
    /\ npc = [g \in Go |-> "unused"]
    /\ NmIdle

\* ================================================================== specifications
\* The log subscription before its goroutines are started.
LogsIdle ==
    /\ ctxDone = FALSE
    /\ checkChan = <<>>
    /\ chanCap = 0
    /\ eager = <<>>
    /\ dpc = "idle"
    /\ lastLog = NilLog
    /\ commingLog = NilLog
    /\ start = 0
    /\ end = 0
    /\ vlog = <<>>
    /\ l = NilLog
    /\ resultChan = NilLog
    /\ delivered = <<>>
    /\ queried = <<>>
    /\ spc = "idle"
    /\ sub = "none"
    /\ opens = 0
    /\ terms = 0
    /\ fails = 0

InitLogs ==
    /\ fpc = "new"
    /\ LogsIdle

\* A remote that may answer anything.
Init ==
    /\ InitLogs
    /\ InitHead
    /\ CliUnused
    /\ remote = "any"
    /\ chain = {}
    /\ toBlock = 0

\* A remote that answers from its chain; the criterion's range ends at block 1
\* or is open, and the matching logs mined so far are in block 1.
InitEager ==
    /\ InitLogs
    /\ InitHead
    /\ CliUnused
    /\ remote = "chain"
    /\ chain \in SUBSET {x \in Log : x.bn = 1}
    /\ toBlock \in {0, 1}

Next ==
    \/ SubscribeFilterlogs
    \/ DetRecv
    \/ DetCtxDone
    \/ DetFilterLogs
    \/ DetSleep
    \/ DetRange
    \/ ConsumerRecv
    \/ SupOpen
    \/ SupWake
    \/ SupSubErr
    \/ SupCtxDone
    \/ SessionPush
    \/ SessionFail
    \/ Cancel

Spec == Init /\ [][Next]_vars

SpecEager == InitEager /\ [][Next]_vars

\* The log subscription (against a remote that answers from its chain) with a
\* consumer that keeps receiving and goroutines that keep running: a step of a
\* goroutine that stays possible is taken in the end, and so is the ctx.Done()
\* case of a select in which it stays ready.
FairSpec ==
    /\ SpecEager
    /\ WF_vars(DetCtxDone)
    /\ WF_vars(DetFilterLogs)
    /\ WF_vars(DetSleep)
    /\ WF_vars(DetRange)
    /\ WF_vars(ConsumerRecv)
    /\ WF_vars(SupOpen)
    /\ WF_vars(SupWake)
    /\ WF_vars(SupCtxDone)

\* The header subscription.
NextHead ==
    \/ SubscribeNewHead
    \/ HDetRecv
    \/ HDetCtxDone
    \/ HDetHeaderByNumber
    \/ HDetSleep
    \/ HDetSendResult
    \/ HConsumerRecv
    \/ HSupOpen
    \/ HSupWake
    \/ HSupSubErr
    \/ HSessionPush
    \/ HSessionFail
    \/ HCancel

SpecHead == Init /\ [][NextHead]_vars

\* The header subscription with a consumer that keeps receiving and goroutines
\* that keep running. The select of its resubscription goroutine has the single
\* case <-sub.Err(), so there is no cancellation step to be fair to.
FairSpecHead ==
    /\ SpecHead
    /\ WF_vars(HDetCtxDone)
    /\ WF_vars(HDetHeaderByNumber)
    /\ WF_vars(HDetSleep)
    /\ WF_vars(HDetSendResult)
    /\ WF_vars(HConsumerRecv)
    /\ WF_vars(HSupOpen)
    /\ WF_vars(HSupWake)
    /\ WF_vars(HSupSubErr)

\* The two resubscription goroutines with their sessions and contexts. They read
\* only the context and the session, which no gap detector writes.
NextSup ==
    \/ SubscribeFilterlogs
    \/ SupOpen
    \/ SupWake
    \/ SupSubErr
    \/ SupCtxDone
    \/ SessionFail
    \/ Cancel
    \/ SubscribeNewHead
    \/ HSupOpen
    \/ HSupWake
    \/ HSupSubErr
    \/ HSessionFail
    \/ HCancel

SpecSup == Init /\ [][NextSup]_vars

\* A caller that makes one of the two subscriptions (they share nothing): the
\* other one is never called.
InitEither ==
    /\ CliUnused
    /\ remote = "any"
    /\ chain = {}
    /\ toBlock = 0
    /\ \/ InitLogs /\ hfpc = "unused" /\ HeadIdle
       \/ InitHead /\ fpc = "unused" /\ LogsIdle

NextEither == Next \/ NextHead

SpecEither == InitEither /\ [][NextEither]_vars

\* The same caller, the log subscription being made against a remote that
\* answers from its chain.
InitRetry ==
    /\ CliUnused
    /\ \/ InitLogs /\ hfpc = "unused" /\ HeadIdle
          /\ remote = "chain" /\ chain \in SUBSET {x \in Log : x.bn = 1} /\ toBlock \in {0, 1}
       \/ InitHead /\ fpc = "unused" /\ LogsIdle
          /\ remote = "any" /\ chain = {} /\ toBlock = 0

\* The two subscriptions while no context is cancelled.
NextRetry ==
    \/ SubscribeFilterlogs
    \/ DetRecv
    \/ DetFilterLogs
    \/ DetSleep
    \/ DetRange
    \/ ConsumerRecv
    \/ SupOpen
    \/ SupWake
    \/ SupSubErr
    \/ SessionPush
    \/ SessionFail
    \/ SubscribeNewHead
    \/ HDetRecv
    \/ HDetHeaderByNumber
    \/ HDetSleep
    \/ HDetSendResult
    \/ HConsumerRecv
    \/ HSupOpen
    \/ HSupWake
    \/ HSupSubErr
    \/ HSessionPush
    \/ HSessionFail

\* The gap detectors with no cancellation, a consumer that keeps receiving and a
\* remote whose gap-recovery query, retried for ever, succeeds in the end.
FairRetry ==
    /\ InitRetry /\ [][NextRetry]_vars
    /\ WF_vars(DetSleep)
    /\ WF_vars(DetRange)
    /\ WF_vars(ConsumerRecv)
    /\ SF_vars(DetFilterLogs /\ dpc' = "range")
    /\ WF_vars(HDetSleep)
    /\ WF_vars(HDetSendResult)
    /\ WF_vars(HConsumerRecv)
    /\ SF_vars(HDetHeaderByNumber /\ hdpc' = "sendMissing")

\* A program that only calls BatchSendMsg.
InitBatch ==
    /\ bpc = "new"
    /\ BatchIdle
    /\ cfpc = "unused" /\ nConf = 0 /\ ConfirmIdle
    /\ npc = [g \in Go |-> "unused"] /\ NmIdle
    /\ fpc = "unused" /\ LogsIdle
    /\ hfpc = "unused" /\ HeadIdle
    /\ remote = "any" /\ chain = {} /\ toBlock = 0

NextBatch ==
    \/ BatchSendMsg
    \/ BatchRecvMsg
    \/ BatchSendTx
    \/ BatchSendErr
    \/ BatchCloseTxs
    \/ BatchCloseErrs
    \/ CallerClose
    \/ CallerRangeTxs
    \/ CallerReadErr

\* The goroutine and the caller's loop keep running, and the caller closes msgs.
SpecBatch ==
    /\ InitBatch /\ [][NextBatch]_vars
    /\ WF_vars(BatchSendTx)
    /\ WF_vars(BatchSendErr)
    /\ WF_vars(BatchCloseTxs)
    /\ WF_vars(BatchCloseErrs)
    /\ WF_vars(CallerClose)
    /\ WF_vars(CallerRangeTxs)
    /\ WF_vars(CallerReadErr)

\* A program that only calls ConfirmTx, over the header subscription.
InitConfirm ==
    /\ cfpc = "new"
    /\ nConf \in 0..MaxN
    /\ ConfirmIdle
    /\ InitHead
    /\ bpc = "unused" /\ BatchIdle
    /\ npc = [g \in Go |-> "unused"] /\ NmIdle
    /\ fpc = "unused" /\ LogsIdle
    /\ remote = "any" /\ chain = {} /\ toBlock = 0

NextConfirm ==
    \/ ConfirmTx
    \/ ConfirmRecvHeader
    \/ ConfirmBlockByHash
    \/ ConfirmBlockByNumber
    \/ ConfirmCtxDone
    \/ HDetRecv
    \/ HDetCtxDone
    \/ HDetHeaderByNumber
    \/ HDetSleep
    \/ HDetSendResult
    \/ HSupOpen
    \/ HSupWake
    \/ HSupSubErr
    \/ HSessionPush
    \/ HSessionFail
    \/ HCancel

SpecConfirm == InitConfirm /\ [][NextConfirm]_vars

\* ConfirmTx with goroutines that keep running: the caller's select and calls,
\* the header detector and the resubscription goroutine take their steps when
\* they can. Nobody receives from headerChan once ConfirmTx has returned.
FairSpecConfirm ==
    /\ SpecConfirm
    /\ WF_vars(ConfirmRecvHeader)
    /\ WF_vars(ConfirmBlockByHash)
    /\ WF_vars(ConfirmBlockByNumber)
    /\ WF_vars(ConfirmCtxDone)
    /\ WF_vars(HDetRecv)
    /\ WF_vars(HDetCtxDone)
    /\ WF_vars(HDetHeaderByNumber)
    /\ WF_vars(HDetSleep)
    /\ WF_vars(HDetSendResult)
    /\ WF_vars(HSupOpen)
    /\ WF_vars(HSupWake)
    /\ WF_vars(HSupSubErr)

\* NGo goroutines calling SendMsg on one Client, each call after the other, for
\* any of the accounts; no subscription, batch or ConfirmTx.
InitNonce ==
    /\ npc = [g \in Go |-> "idle"]
    /\ NmIdle
    /\ bpc = "unused" /\ BatchIdle
    /\ cfpc = "unused" /\ nConf = 0 /\ ConfirmIdle
    /\ fpc = "unused" /\ LogsIdle
    /\ hfpc = "unused" /\ HeadIdle
    /\ remote = "any" /\ chain = {} /\ toBlock = 0

NextNonce ==
    \/ SendMsgKey
    \/ NewTransaction
    \/ PendingNonceAtLock
    \/ PendingNonceAtLookup
    \/ PendingNonceAtStore
    \/ SendMsgTransmit

SpecNonce == InitNonce /\ [][NextNonce]_vars

\* ================================================================== claims
Last(s) == s[Len(s)]

\* C1: the logs sent to the consumer channel are strictly increasing in
\* (BlockNumber, TxIndex, Index), whatever the raw channel and the backfill
\* queries bring; so no key is sent twice.
C1_Ordered ==
    /\ StrictlyIncreasing(delivered)
    /\ (resultChan # NilLog /\ delivered # <<>>) => KeyLess(Last(delivered), resultChan)

\* Three logs were delivered and a backfill pass is skipping a log it returned
\* again.
C1_Witness ==
    /\ Len(delivered) >= 3
    /\ dpc = "range"
    /\ l \in Range(delivered)

\* C2: the block numbers of the headers sent to the consumer channel are
\* strictly increasing, with no repeats (HeaderByNumber(n) returning header n).
C2_HeadersIncreasing ==
    /\ \A i, j \in 1..Len(hDelivered) : i < j => hDelivered[i] < hDelivered[j]
    /\ \A i \in 1..Len(hDelivered) : hResultChan # 0 => hDelivered[i] < hResultChan

\* After a resubscription the detector took a stale header and dropped it.
C2_Witness ==
    /\ hTerms >= 1
    /\ Len(hDelivered) >= 2
    /\ hdpc = "select"
    /\ result # 0
    /\ result < lastHeader

\* C3: the delivered headers are gap-free: each header after the first is
\* numbered one more than the one before it, the missing ones being fetched by
\* number and delivered before the raw header that revealed the gap.
C3_GapFree ==
    /\ \A i \in 1..(Len(hDelivered) - 1) : hDelivered[i + 1] = hDelivered[i] + 1
    /\ (hResultChan # 0 /\ hDelivered # <<>>) => hResultChan = Last(hDelivered) + 1
    /\ (hdpc = "select" /\ hDelivered # <<>>) => Last(hDelivered) = lastHeader

\* Raw headers 1 and 3, header 2 looked up: the consumer has 1, 2, 3.
C3_Witness ==
    /\ hDelivered = <<1, 2, 3>>
    /\ looked = {2}
    /\ result = 3

\* C4: a raw log that is ahead of lastLog is itself delivered once its
\* backfill succeeded, before the next raw item is taken, whether or not the
\* backfill result holds it (unless the pass delivered a later log).
C4_TriggerDelivered ==
    (dpc = "select" /\ commingLog # NilLog) =>
        \/ commingLog \in Range(delivered)
        \/ KeyLess(commingLog, lastLog)

\* C5: a backfill pass delivers no log a second time: an item of the result
\* whose key is <= lastLog is skipped, leaving lastLog and the consumer channel
\* as they were.
C5_Idempotent ==
    /\ [](resultChan # NilLog => resultChan \notin Range(delivered))
    /\ [][(dpc = "range" /\ Len(vlog') < Len(vlog) /\ KeyLeq(l', lastLog)) =>
            (lastLog' = lastLog /\ resultChan' = NilLog /\ delivered' = delivered
             /\ dpc' = "range")]_vars

\* A second query of the same gap: the pass is at a log the consumer already has.
C5_Witness ==
    /\ dpc = "range"
    /\ l \in Range(delivered)
    /\ l # lastLog

\* The detector waits for a raw item and none is pending.
Quiescent == fpc = "running" /\ dpc = "select" /\ checkChan = <<>>

\* The logs the live sessions pushed, in push order.
LivePushed == SortLogs(chain \ Range(eager))

\* C6: the consumer receives the logs of the eager query in query order and then
\* the logs the live session pushed.
C6_EagerThenLive == Quiescent => delivered = eager \o LivePushed

SupCount(pc, o, t, f) == o = t + f + (IF pc \in {"active", "stopped"} THEN 1 ELSE 0)

\* An open attempt is made from Connecting with no session held; a termination
\* releases the session and starts the delay; Connecting is entered from the delay.
SupOrder(pc, pc2, s, s2, o, o2, t, t2) ==
    /\ o2 # o => (o2 = o + 1 /\ pc = "open" /\ s \in {"none", "closed"})
    /\ t2 # t => (t2 = t + 1 /\ s = "errored" /\ s2 = "closed" /\ pc2 = "sleep" /\ o2 = o)
    /\ (pc2 = "open" /\ pc # "open") => pc \in {"idle", "sleep"}

\* C8: each termination error the supervisor receives is followed by one open
\* attempt, made after the session was unsubscribed and the delay is over; open
\* attempts = 1 + terminations + failed opens; none is made while a session is held.
C8_Backoff ==
    /\ [](SupCount(spc, opens, terms, fails) /\ SupCount(hspc, hOpens, hTerms, hFails))
    /\ [][/\ SupOrder(spc, spc', sub, sub', opens, opens', terms, terms')
          /\ SupOrder(hspc, hspc', hsub, hsub', hOpens, hOpens', hTerms, hTerms')]_vars

\* Both supervisors are in their third session, after one failed open and one
\* termination each.
C8_Witness ==
    /\ spc = "active" /\ sub = "live" /\ opens = 3 /\ terms = 1 /\ fails = 1
    /\ hspc = "active" /\ hsub = "live" /\ hOpens = 3 /\ hTerms = 1 /\ hFails = 1

\* C9: once the context is cancelled, no further event is sent to the consumer
\* channel.
C9_NoSendAfterCancel ==
    [][/\ ctxDone => (resultChan' = resultChan \/ resultChan' = NilLog)
       /\ hCtxDone => (hResultChan' = hResultChan \/ hResultChan' = 0)]_vars

\* C10: after the context is cancelled, the gap detector and the supervisor of a
\* log subscription both terminate.
C10_Terminates ==
    ctxDone ~> (dpc \in {"idle", "done"} /\ spc \in {"idle", "stopped"})

\* Both goroutines have ended although the session never reported an error.
C10_Witness ==
    /\ ctxDone
    /\ dpc = "done"
    /\ spc = "stopped"
    /\ sub = "live"
    /\ terms = 0

\* C11: after the context is cancelled, the gap detector and the supervisor of a
\* header subscription both terminate, also when the session never reports an
\* error.
C11_HeadTerminates ==
    hCtxDone ~> (hdpc \in {"idle", "done"} /\ hspc \in {"idle", "stopped"})

\* While a supervisor is connecting or waiting out the delay, it holds no session.
NoSessionHeld(pc, s) == pc \in {"open", "sleep"} => s \in {"none", "closed"}

\* A session becomes live only through an open attempt made while none is held;
\* a terminated session is only released, and a released one is never used again.
SessionOrder(s, s2, o, o2) ==
    /\ (s2 = "live" /\ s # "live") => (o2 = o + 1 /\ s \in {"none", "closed"})
    /\ s = "errored" => s2 \in {"errored", "closed"}
    /\ s = "closed" => s2 \in {"closed", "live"}

\* C12: at most one session opened by a supervisor is live at any moment: a new
\* session is opened only after the previous one reported termination and was
\* unsubscribed, and a terminated session is never used again.
C12_OneLiveSession ==
    /\ [](NoSessionHeld(spc, sub) /\ NoSessionHeld(hspc, hsub))
    /\ [][/\ SessionOrder(sub, sub', opens, opens')
          /\ SessionOrder(hsub, hsub', hOpens, hOpens')]_vars

\* Both supervisors hold their second session, the first one having terminated
\* and been unsubscribed.
C12_Witness ==
    /\ spc = "active" /\ sub = "live" /\ opens = 2 /\ terms = 1
    /\ hspc = "active" /\ hsub = "live" /\ hOpens = 2 /\ hTerms = 1

\* C13: a transient failure of a remote call made for a subscription is retried
\* after the delay and never returned to the caller; so SubscribeFilterlogs does
\* not return the failure of its eager query.
C13_TransientNotReturned == fpc # "failed"

\* Nothing of the log subscription was started.
NothingStarted ==
    /\ dpc = "idle" /\ spc = "idle" /\ sub = "none" /\ opens = 0
    /\ checkChan = <<>> /\ resultChan = NilLog /\ delivered = <<>>

\* C14: a subscribe operation returns an error only at subscribe time, and
\* SubscribeNewHead returns nil; when SubscribeFilterlogs returns an error, no
\* goroutine is started, no session opened and nothing sent to the consumer;
\* after a nil return the consumer channel carries logs and headers only.
C14_ErrorOnlyAtSubscribe ==
    /\ [](fpc \in {"failed", "cancelled"} => NothingStarted)
    /\ [](Range(delivered) \subseteq Log /\ Range(hDelivered) \subseteq Header)
    /\ [][/\ fpc' # fpc => (fpc = "new" /\ fpc' \in {"running", "failed", "cancelled"})
          /\ hfpc' # hfpc => (hfpc = "new" /\ hfpc' = "running" /\ hdpc' = "select"
                               /\ hspc' = "open")]_vars

\* SubscribeFilterlogs returned the failure of its eager query, and the context
\* was cancelled later.
C14_Witness == fpc = "failed" /\ ctxDone

\* The outcome of an open attempt: Stopped on a cancellation-class error, Backoff
\* on any other error, Active on success; Stopped is final, and Backoff leads to
\* Connecting only.
OpenOutcome(done, pc, pc2, s2, o, o2, f, f2) ==
    /\ o2 # o =>
          IF done THEN pc2 = "stopped" /\ f2 = f
          ELSE \/ pc2 = "active" /\ s2 = "live" /\ f2 = f
               \/ pc2 = "sleep" /\ f2 = f + 1
    /\ f2 # f => (o2 = o + 1 /\ pc2 = "sleep")
    /\ pc = "stopped" => (pc2 = "stopped" /\ o2 = o)
    /\ pc = "sleep" => pc2 \in {"sleep", "open"}

\* C17: a failed open attempt with a cancellation-class error stops the
\* supervisor for good; with any other error it waits the delay and connects
\* again, as often as attempts fail.
C17_OpenFailure ==
    [][/\ OpenOutcome(ctxDone, spc, spc', sub', opens, opens', fails, fails')
       /\ OpenOutcome(hCtxDone, hspc, hspc', hsub', hOpens, hOpens', hFails, hFails')]_vars

\* Both supervisors stopped at their third attempt, after two failed ones, and
\* never held a session.
C17_Witness ==
    /\ spc = "stopped" /\ opens = 3 /\ fails = 2 /\ sub = "none"
    /\ hspc = "stopped" /\ hOpens = 3 /\ hFails = 2 /\ hsub = "none"

\* C18: once the context is cancelled, no task issues a new remote call: a
\* supervisor cancelled during its delay goes to Stopped, not to another open
\* attempt, and a gap detector cancelled during its retry delay ends, not
\* issuing the backfill query again.
C18_NoCallAfterCancel ==
    [][/\ (ctxDone /\ spc = "sleep") => spc' \in {"sleep", "stopped"}
       /\ (ctxDone /\ dpc = "sleep") => dpc' \in {"sleep", "done"}
       /\ (hCtxDone /\ hspc = "sleep") => hspc' \in {"sleep", "stopped"}
       /\ (hCtxDone /\ hdpc = "sleep") => hdpc' \in {"sleep", "done"}]_vars

\* The log detector returned from inside its backfill loop.
LeftInBackfill == dpc = "done" /\ queried # <<>> /\ start <= end

\* The header detector returned from inside its missing-header loop.
HLeftInBackfill == hdpc = "done" /\ hStart < hEnd

\* C20: a gap-recovery query that fails with a cancellation-class error ends the
\* gap detector: it sends nothing more, not the raw item that started the
\* backfill either, and issues no further query.
C20_CancelledQueryExits ==
    /\ [](LeftInBackfill => (resultChan = NilLog /\ commingLog \notin Range(delivered)))
    /\ [](HLeftInBackfill => (hResultChan = 0 /\ result \notin Range(hDelivered)))
    /\ [][/\ (ctxDone /\ dpc = "loop" /\ dpc' # dpc) => dpc' = "done"
          /\ dpc = "done" => (dpc' = "done" /\ resultChan' = NilLog /\ delivered' = delivered
                               /\ queried' = queried)
          /\ (hCtxDone /\ hdpc = "loop" /\ hStart < hEnd /\ hdpc' # hdpc) => hdpc' = "done"
          /\ hdpc = "done" => (hdpc' = "done" /\ hResultChan' = 0
                                /\ hDelivered' = hDelivered /\ looked' = looked)]_vars

\* The log detector returned on a cancelled query of a backfill, after a
\* delivery, with the raw log that started the backfill undelivered.
C20_Witness ==
    /\ LeftInBackfill
    /\ ctxDone
    /\ Len(delivered) >= 1
    /\ KeyLess(lastLog, commingLog)

\* The log detector is in a backfill; the header detector is.
InBackfill == dpc \in {"loop", "sleep", "range", "sendMissing"}

HInBackfill == hdpc \in {"loop", "sleep", "sendMissing"}

\* C19: a gap-recovery query that fails with another error than cancellation
\* delivers nothing; the detector waits the delay and asks again for the same
\* range (logs) or number (headers); when the query succeeds in the end and the
\* consumer receives, the detector is back at reading raw items.
C19_RetrySameRange ==
    /\ [](dpc = "sleep" => (queried = <<start, toBlock>> /\ start <= end
                             /\ resultChan = NilLog))
    /\ [](hdpc = "sleep" => (hStart \in looked /\ hStart < hEnd /\ hResultChan = 0))
    /\ [][/\ (dpc = "sleep" \/ dpc' = "sleep") =>
                (/\ dpc' \in {"sleep", "loop"}
                 /\ <<start, end, lastLog, delivered>>' = <<start, end, lastLog, delivered>>)
          /\ (hdpc = "sleep" \/ hdpc' = "sleep") =>
                (/\ hdpc' \in {"sleep", "loop"}
                 /\ <<hStart, hEnd, lastHeader, hDelivered>>'
                        = <<hStart, hEnd, lastHeader, hDelivered>>)]_vars
    /\ InBackfill ~> dpc = "select"
    /\ HInBackfill ~> hdpc = "select"

\* A backfill query failed after a delivery: the detector waits to ask again
\* for the range it asked for.
C19_Witness ==
    /\ dpc = "sleep"
    /\ Len(delivered) >= 2
    /\ KeyLess(lastLog, commingLog)

\* What the goroutine of BatchSendMsg has put on txs and on errs so far.
EmittedTxs == gotTxs \o txs

EmittedErrs == gotErrs \o errs

\* C15: for every message received, in input order, BatchSendMsg puts one entry
\* on txs and then one on errs, the i-th of each being those of the i-th message;
\* it closes both channels once msgs is closed and every message is processed;
\* the caller's loop over txs, reading one error per transaction, ends after as
\* many iterations as messages were sent.
C15_BatchPairs ==
    /\ [](/\ \A i \in 1..Len(EmittedTxs) : EmittedTxs[i] = SendMsg(i).tx
          /\ \A i \in 1..Len(EmittedErrs) : EmittedErrs[i] = SendMsg(i).err
          /\ Len(EmittedErrs) <= Len(EmittedTxs)
          /\ Len(EmittedTxs) <= Len(EmittedErrs) + 1
          /\ Len(EmittedTxs) <= msgsSent
          /\ Len(EmittedTxs) >= msgsSent - 1)
    /\ [](txsClosed => (msgsClosed /\ Len(EmittedTxs) = msgsSent
                        /\ Len(EmittedErrs) = msgsSent))
    /\ [](errsClosed => txsClosed)
    /\ [](upc = "done" => (Len(gotTxs) = msgsSent /\ gotErrs = gotTxs))
    /\ (upc # "idle") ~> (upc = "done")

\* The caller has read nothing yet: both channels are full and the goroutine is
\* blocked sending the next transaction.
C15_Witness ==
    /\ bpc = "sendTx"
    /\ Len(txs) = TxsCap
    /\ Len(errs) = ErrsCap
    /\ gotTxs = <<>>

\* C16: ConfirmTx returns true only after a header whose block holds the
\* transaction, a later header n or more blocks above it and a successful
\* re-check; when the re-check fails or the timeout elapses first, it returns
\* (false, nil): a return made after the timeout is (false, nil).
C16_ConfirmOutcome ==
    /\ [](confirmed = "true" => (blockMinedTx # 0 /\ header >= blockMinedTx + nConf
                                 /\ header > blockMinedTx))
    /\ [][(hCtxDone /\ confirmed = "none" /\ confirmed' # "none") =>
            confirmed' = "false"]_vars

\* The step in which the log detector takes a raw item; the header detector.
TakesRaw == Len(checkChan') < Len(checkChan)

HTakesRaw == Len(hCheckChan') < Len(hCheckChan)

\* C21: a raw item whose key is <= lastSeen is dropped: nothing is sent, lastSeen
\* stays, no backfill query is issued and the detector takes the next raw item.
C21_DuplicateDropped ==
    [][/\ (TakesRaw /\ lastLog # NilLog /\ KeyLeq(commingLog', lastLog)) =>
            /\ dpc' = "select"
            /\ <<lastLog, resultChan, delivered, queried, start, end>>'
                  = <<lastLog, resultChan, delivered, queried, start, end>>
       /\ (HTakesRaw /\ lastHeader # 0 /\ result' <= lastHeader) =>
            /\ hdpc' = "select"
            /\ <<lastHeader, hResultChan, hDelivered, hStart, hEnd>>'
                  = <<lastHeader, hResultChan, hDelivered, hStart, hEnd>>
            /\ looked' = {}]_vars

\* With one log delivered and no query made, the detector took an older raw log
\* and is back at its select.
C21_Witness ==
    /\ dpc = "select"
    /\ queried = <<>>
    /\ Len(delivered) = 1
    /\ KeyLess(commingLog, lastLog)

\* C22: a raw header numbered lastSeen + 1 is delivered and becomes lastSeen
\* with no HeaderByNumber call; a lookup is made only for numbers strictly
\* between lastSeen and the raw header's number.
C22_SuccessorNoLookup ==
    /\ []((hdpc = "loop" /\ result = lastHeader + 1) => (looked = {} /\ ~(hStart < hEnd)))
    /\ [][/\ (hdpc = "loop" /\ result = lastHeader + 1 /\ hdpc' # hdpc) =>
               (hdpc' = "sendResult" /\ hResultChan' = result /\ lastHeader' = result
                /\ looked' = {})
          /\ (looked' # looked /\ looked' # {}) =>
               \E x \in Header : /\ looked' = looked \cup {x}
                                 /\ lastHeader < x
                                 /\ x < result]_vars

\* With headers 1 and 2 delivered, the raw header 3 is being sent, nothing having
\* been looked up for it.
C22_Witness ==
    /\ hDelivered = <<1, 2>>
    /\ hdpc = "sendResult"
    /\ hResultChan = 3
    /\ lastHeader = 3
    /\ looked = {}

\* C23: the first raw item of a subscription, taken while lastLog / lastHeader is
\* unset, is sent to the consumer and becomes lastLog / lastHeader in the same
\* step, with no FilterLogs / HeaderByNumber call; until something has been
\* delivered no such call has been made at all, and no header delivered later is
\* numbered below the first one delivered.
C23_FirstDelivered ==
    /\ [](delivered = <<>> => queried = <<>>)
    /\ [](hDelivered = <<>> => looked = {})
    /\ [](\A i \in 1..Len(hDelivered) : hDelivered[1] <= hDelivered[i])
    /\ [][/\ (TakesRaw /\ lastLog = NilLog) =>
               /\ dpc' = "sendFirst"
               /\ lastLog' = commingLog'
               /\ resultChan' = commingLog'
               /\ queried' = queried
               /\ delivered' = delivered
          /\ (HTakesRaw /\ lastHeader = 0) =>
               /\ hdpc' = "sendResult"
               /\ lastHeader' = result'
               /\ hResultChan' = result'
               /\ looked' = {}
               /\ hDelivered' = hDelivered
          /\ (dpc = "sendFirst" /\ delivered' # delivered) =>
               delivered' = Append(delivered, commingLog)
          /\ (hdpc = "sendResult" /\ hDelivered' # hDelivered) =>
               hDelivered' = Append(hDelivered, result)]_vars

\* The first log pushed by a live session (the eager query found nothing) has
\* been delivered, no FilterLogs call having been made by the detector.
C23_Witness ==
    /\ eager = <<>>
    /\ Len(delivered) = 1
    /\ delivered[1] = lastLog
    /\ queried = <<>>
    /\ dpc = "select"
    /\ sub = "live"

\* C24: a gap-recovery FilterLogs query covers the blocks from lastLog's block,
\* as it was when the gap was found, up to the block of the raw log that
\* revealed the gap, and the pass sends no log of a later block.
C24_QueryRange ==
    /\ (dpc \in {"sleep", "range", "sendMissing"}) => queried = <<start, commingLog.bn>>
    /\ (dpc = "sendMissing") => resultChan.bn <= commingLog.bn

\* C25: within one gap recovery a failed FilterLogs call delivers nothing and
\* leaves start and lastLog as they were; the pass over a successful result ends
\* with start = end + 1 and takes the detector out of the loop, so the loop is
\* entered only from the select or from the retry delay, never again after a
\* successful query; and no log is delivered twice.
C25_OneSuccessfulQuery ==
    /\ [](dpc \in {"loop", "sleep", "range", "sendMissing"} => start <= end)
    /\ [](\A i, j \in 1..Len(delivered) : i # j => delivered[i] # delivered[j])
    /\ [][/\ (dpc = "loop" /\ dpc' = "sleep") =>
               <<start, end, lastLog, resultChan, delivered, vlog>>' =
               <<start, end, lastLog, resultChan, delivered, vlog>>
          /\ (dpc = "sleep" /\ dpc' # dpc) =>
               /\ dpc' = "loop"
               /\ <<start, end, lastLog, resultChan, delivered>>' =
                  <<start, end, lastLog, resultChan, delivered>>
          /\ (dpc = "range" /\ dpc' \notin {"range", "sendMissing"}) =>
               /\ dpc' = "select"
               /\ vlog = <<>>
               /\ start' = end + 1
          /\ (dpc' = "loop" /\ dpc # "loop") => dpc \in {"select", "sleep"}
          /\ (dpc' = "range" /\ dpc \notin {"range", "sendMissing"}) =>
               /\ dpc = "loop"
               /\ queried' = <<start, toBlock>>]_vars

\* A gap recovery is over: its result gave the consumer a second and a third log
\* and start stands past end.
C25_Witness ==
    /\ dpc = "select"
    /\ queried # <<>>
    /\ start = end + 1
    /\ Len(delivered) = 3
    /\ lastLog = Last(delivered)

\* Every step that is not a step of the log detector goroutine.
NotLogDetector == dpc' = dpc /\ Len(checkChan') >= Len(checkChan)

\* Every step that is not a step of the header detector goroutine.
NotHeadDetector == hdpc' = hdpc /\ Len(hCheckChan') >= Len(hCheckChan)

\* C26: whenever a detector waits at its select, lastLog / lastHeader is unset
\* exactly if nothing has been delivered, and otherwise is the event delivered
\* last, which is the greatest one delivered; and only steps of the detector
\* goroutine change it, a supervisor step never does.
C26_LastSeen ==
    /\ [](dpc = "select" =>
            /\ (lastLog = NilLog) <=> (delivered = <<>>)
            /\ delivered # <<>> =>
                 /\ lastLog = Last(delivered)
                 /\ \A i \in 1..Len(delivered) : KeyLeq(delivered[i], lastLog))
    /\ [](hdpc = "select" =>
            /\ (lastHeader = 0) <=> (hDelivered = <<>>)
            /\ hDelivered # <<>> =>
                 /\ lastHeader = Last(hDelivered)
                 /\ \A i \in 1..Len(hDelivered) : hDelivered[i] <= lastHeader)
    /\ [][/\ NotLogDetector => lastLog' = lastLog
          /\ NotHeadDetector => lastHeader' = lastHeader
          /\ <<spc, sub, opens, terms, fails>>' # <<spc, sub, opens, terms, fails>> =>
               lastLog' = lastLog
          /\ <<hspc, hsub, hOpens, hTerms, hFails>>' # <<hspc, hsub, hOpens, hTerms, hFails>> =>
               lastHeader' = lastHeader]_vars

\* After a session was lost and three logs were delivered, the detector waits
\* with lastLog at the third.
C26_Witness ==
    /\ dpc = "select"
    /\ Len(delivered) = 3
    /\ lastLog = Last(delivered)
    /\ terms >= 1

\* C27: while a send to the consumer channel is pending the detector takes no
\* raw item and makes no remote call, lastLog / lastHeader and the pending event
\* stay as they are, and the only thing that ends the wait is the consumer
\* receiving exactly the pending event as its next one.
C27_BlockingSend ==
    [][/\ dpc \in {"sendFirst", "sendMissing"} =>
            /\ Len(checkChan') >= Len(checkChan)
            /\ <<queried, lastLog, commingLog, start, end, vlog>>' =
               <<queried, lastLog, commingLog, start, end, vlog>>
            /\ \/ <<dpc, resultChan, delivered>>' = <<dpc, resultChan, delivered>>
               \/ /\ delivered' = Append(delivered, resultChan)
                  /\ dpc' \in {"select", "range"}
       /\ hdpc \in {"sendMissing", "sendResult"} =>
            /\ Len(hCheckChan') >= Len(hCheckChan)
            /\ <<looked, lastHeader, result, hStart, hEnd>>' =
               <<looked, lastHeader, result, hStart, hEnd>>
            /\ \/ <<hdpc, hResultChan, hDelivered>>' = <<hdpc, hResultChan, hDelivered>>
               \/ /\ hDelivered' = Append(hDelivered, hResultChan)
                  /\ hdpc' \in {"loop", "select"}]_vars

\* The consumer is not reading: a send of a missing log is pending, more of the
\* result waits behind it, and the live session's next push waits in the raw
\* channel.
C27_Witness ==
    /\ dpc = "sendMissing"
    /\ vlog # <<>>
    /\ Len(checkChan) = RawCap
    /\ sub = "live"
    /\ delivered # <<>>

\* C28: once ConfirmTx has returned, the gap detector and the resubscription
\* goroutine of the header subscription it started both terminate, and no live
\* session stays open.
C28_ConfirmCleansUp ==
    (cfpc = "ret") ~> (hdpc = "done" /\ hspc = "stopped" /\ hsub # "live")

\* The nonces PendingNonceAt returned for an account, in the order of return.
Returned(acc) == SelectSeq(hist[acc], LAMBDA x : x >= 0)

\* C29: however the concurrent calls interleave, the nonces returned for one
\* account are c, c + 1, c + 2, ... in the order in which the calls held the
\* lock, c being the value the first successful call fetched; between Lock and
\* Unlock there is one goroutine at most; the chain is asked for an account's
\* nonce only while the map has no entry for it; and a call for one account
\* leaves the entry and the sequence of every other account as they were.
C29_ConsecutiveNonces ==
    /\ [](\A acc \in Account : \A i \in 1..Len(Returned(acc)) :
             Returned(acc)[i] = Returned(acc)[1] + i - 1)
    /\ [](\A g \in Go : npc[g] \in {"lookup", "store"} => lock = g)
    /\ [][\A acc \in Account :
            /\ fetches'[acc] # fetches[acc] =>
                 /\ nonceMap[acc] = NoNonce
                 /\ lock # 0 /\ account[lock] = acc
            /\ Returned(acc)' # Returned(acc) =>
                 /\ lock # 0 /\ account[lock] = acc /\ npc[lock] = "store"
                 /\ Returned(acc)' = Append(Returned(acc), nonce[lock])
                 /\ nonce[lock] = IF Returned(acc) = <<>> THEN nonce[lock]
                                  ELSE Last(Returned(acc)) + 1
                 /\ lock' = 0
            /\ hist'[acc] # hist[acc] =>
                 \A other \in Account \ {acc} :
                    /\ hist'[other] = hist[other]
                    /\ nonceMap'[other] = nonceMap[other]
                    /\ fetches'[other] = fetches[other]]_vars

\* Two calls for account 1 have returned 1 and 2; now a goroutine holds the lock
\* for account 2 and the other one waits for the lock, for account 1.
C29_Witness ==
    /\ Returned(1) = <<1, 2>>
    /\ lock # 0
    /\ account[lock] = 2
    /\ \E g \in Go : npc[g] = "lock" /\ account[g] = 1

\* C30: the entry of nm.nonceMap for an account changes only in the step in
\* which PendingNonceAt returns a nonce for it, to that nonce + 1. A failed
\* remote fetch leaves the map without the entry, so that the next call asks
\* the chain again; a SendMsg that returns for a nil key or from a failure in
\* NewTransaction before PendingNonceAt changes no entry; the next nonce handed
\* out for the account is the one after the last handed out.
C30_CacheFrame ==
    /\ [](\A acc \in Account :
            IF Returned(acc) = <<>> THEN nonceMap[acc] = NoNonce
            ELSE nonceMap[acc] = Last(Returned(acc)) + 1)
    /\ [][/\ nonceMap' # nonceMap =>
               \E g \in Go :
                  /\ npc[g] = "store" /\ npc'[g] = "send"
                  /\ nonceMap' = [nonceMap EXCEPT ![account[g]] = nonce[g] + 1]
                  /\ hist' = [hist EXCEPT ![account[g]] = Append(@, nonce[g])]
          /\ \A acc \in Account :
               (hist'[acc] # hist[acc] /\ Last(hist'[acc]) < 0) =>
                  /\ nonceMap' = nonceMap
                  /\ \E g \in Go :              \* the failed call returns at once
                       /\ account[g] = acc
                       /\ npc[g] \in {"newTx", "lookup"}
                       /\ npc'[g] = "idle"
          /\ (\E g \in Go : npc[g] \in {"newTx", "lookup"} /\ npc'[g] = "idle") =>
               nonceMap' = nonceMap
          /\ (calls' # calls) => (nonceMap' = nonceMap /\ hist' = hist)
          /\ (\E acc \in Account : fetches'[acc] # fetches[acc] /\ nonceMap[acc] # NoNonce) =>
               FALSE]_vars

\* For account 1: a remote fetch failed, the next call fetched and returned 1, a
\* SendMsg failed in NewTransaction, and the call after it returned 2.
C30_Witness == hist[1] = <<FetchFailed, 1, GasFailed, 2>>

====
